---- MODULE Spec2Model ----
(***************************************************************************)
(* Rolling-shutter flash controller (rolling_shutter.cpp).                 *)
(*                                                                         *)
(* One thread runs main(): it requests real-time priority, opens the GPIO  *)
(* chip, requests the XVS input line (rising-edge events) and the LED      *)
(* output line, registers the SIGINT handler and then loops: wait for an   *)
(* edge, read the event, take a timestamp, spin until TRIGGER_WAIT_NS has  *)
(* passed, switch the LED on, sleep FLASH_DURATION_NS, switch it off.      *)
(*                                                                         *)
(* The environment is the clock, the sensor (edges queued by the kernel on *)
(* the XVS line), the operator (SIGINT) and the GPIO calls, any of which   *)
(* can throw std::system_error into the catch clause of main().            *)
(*                                                                         *)
(* The timing constants are constexpr values guarded by a static_assert.   *)
(* To state what the static_assert admits, the four inputs are a record    *)
(* cfg chosen in Init; the step StaticAssert is the build: a cfg it        *)
(* refuses yields no program at all.                                       *)
(***************************************************************************)
EXTENDS Integers, Sequences, FiniteSets

VARIABLES
    cfg,                \* the four timing inputs: [t1, t2, texp, ft]
    t3_magic_window_ns, \* constexpr T3_MAGIC_WINDOW_NS  (0 until built)
    trigger_wait_ns,    \* constexpr TRIGGER_WAIT_NS     (0 until built)
    pc,                 \* position of main()
    running,            \* volatile bool running
    handler,            \* TRUE once std::signal(SIGINT, signal_handler) ran
    realtime,           \* "unset" | "fifo" | "default"
    chip,               \* gpiod::chip is open
    xvs_line,           \* XVS line is requested (held)
    led_line,           \* LED line is requested (held)
    led,                \* level of the LED output line
    queue,              \* kernel event queue of the XVS line: edge timestamps
    arrived,            \* per queued edge: the cycle in flight when it came, or 0
    event_arrived,      \* the same for the event last read
    event,              \* timestamp of the gpiod::line_event last read
    xvs_time,           \* auto xvs_time
    clock,              \* std::chrono::high_resolution_clock::now()
    ticks,              \* number of clock advances so far
    delivered,          \* number of edges the sensor has delivered
    processed,          \* number of events read (edges processed)
    rises,              \* number of set_value(1) calls that returned
    falls,              \* number of set_value(0) calls that returned
    led_on,             \* clock when the LED was last switched on
    led_off,            \* clock when the LED was last switched off
    sigAt,              \* pc at which the first handled SIGINT arrived
    settled,            \* SIGINT was handled and no cycle was in flight since
    error               \* what the catch clause caught: "none" or the call

vars == <<cfg, t3_magic_window_ns, trigger_wait_ns, pc, running, handler,
          realtime, chip, xvs_line, led_line, led, queue, arrived,
          event_arrived, event, xvs_time,
          clock, ticks, delivered, processed, rises, falls, led_on, led_off,
          sigAt, settled, error>>

(***************************************************************************)
(* Bounds of the model.                                                    *)
(***************************************************************************)
MaxTicks == 4   \* clock advances per run
\* Edges delivered per run.  A cycle takes two clock advances (the trigger
\* wait and the flash), so MaxTicks lets MaxTicks \div 2 cycles complete; one
\* edge more leaves an edge to be read after the last of them.
MaxEdges == (MaxTicks \div 2) + 1

(***************************************************************************)
(* Timing constants as shipped, in nanoseconds.                            *)
(***************************************************************************)
T1_VERTICAL_BLANKING_NS == 284200
T2_ROLL_UP_TIME_NS == 10579100
TOTAL_EXPOSURE_TIME_NS == 15000000
FLASH_DURATION_NS == 50000

Shipped ==
    [t1 |-> T1_VERTICAL_BLANKING_NS, t2 |-> T2_ROLL_UP_TIME_NS,
     texp |-> TOTAL_EXPOSURE_TIME_NS, ft |-> FLASH_DURATION_NS]

\* The timing inputs the build is tried with: the shipped constants, a
\* window one nanosecond longer than the flash, a window exactly as long as
\* the flash, the short exposure of 10.6 ms, an exposure shorter than the
\* roll-up time (negative window), and a flash as long as the shipped window.
TimingInputs ==
    { Shipped,
      [Shipped EXCEPT !.texp = T2_ROLL_UP_TIME_NS + FLASH_DURATION_NS + 1],
      [Shipped EXCEPT !.texp = T2_ROLL_UP_TIME_NS + FLASH_DURATION_NS],
      [Shipped EXCEPT !.texp = 10600000],
      [Shipped EXCEPT !.texp = 10000000],
      [Shipped EXCEPT !.ft = TOTAL_EXPOSURE_TIME_NS - T2_ROLL_UP_TIME_NS] }

\* T3 = T-exp - T2
T3_MAGIC_WINDOW_NS(c) == c.texp - c.t2

\* the time waited after XVS before firing the flash
C9_MutTriggerWait(c) == c.t1 + c.texp
TRIGGER_WAIT_NS(c) == c.t1 + c.t2

\* static_assert(FLASH_DURATION_NS < T3_MAGIC_WINDOW_NS)
C8_MutAssertHolds(c) == c.ft <= T3_MAGIC_WINDOW_NS(c)
AssertHolds(c) == c.ft < T3_MAGIC_WINDOW_NS(c)

(***************************************************************************)
(* Positions of main().                                                    *)
(***************************************************************************)
Startup == {"set_realtime_priority", "chip", "xvs_request", "led_request", "signal"}
\* between the acknowledgement of an edge and set_value(0)
InFlight == {"now", "spin", "set_value_1", "sleep_for", "set_value_0"}
Loop == {"while", "event_wait", "event_read"} \cup InFlight
Terminal == {"return0", "return1", "killed", "rejected"}

Init ==
    /\ cfg \in TimingInputs
    /\ t3_magic_window_ns = 0
    /\ trigger_wait_ns = 0
    /\ pc = "static_assert"
    /\ running = TRUE
    /\ handler = FALSE
    /\ realtime = "unset"
    /\ chip = FALSE
    /\ xvs_line = FALSE
    /\ led_line = FALSE
    /\ led = 0
    /\ queue = <<>>
    /\ arrived = <<>>
    /\ event_arrived = 0
    /\ event = 0
    /\ xvs_time = 0
    /\ clock = 0
    /\ ticks = 0
    /\ delivered = 0
    /\ processed = 0
    /\ rises = 0
    /\ falls = 0
    /\ led_on = 0
    /\ led_off = 0
    /\ sigAt = "none"
    /\ settled = FALSE
    /\ error = "none"

envVars == <<queue, arrived, clock, ticks, delivered>>
cfgVars == <<cfg, t3_magic_window_ns, trigger_wait_ns>>
histVars == <<processed, rises, falls, led_on, led_off, event_arrived>>
lineVars == <<chip, xvs_line, led_line>>

(***************************************************************************)
(* The build: constexpr evaluation and the static_assert.                  *)
(***************************************************************************)
StaticAssert ==
    /\ pc = "static_assert"
    /\ IF AssertHolds(cfg)
         THEN /\ t3_magic_window_ns' = T3_MAGIC_WINDOW_NS(cfg)
              /\ trigger_wait_ns' = TRIGGER_WAIT_NS(cfg)
              /\ pc' = "set_realtime_priority"
         ELSE /\ pc' = "rejected"
              /\ UNCHANGED <<t3_magic_window_ns, trigger_wait_ns>>
    /\ UNCHANGED <<cfg, running, handler, realtime, led, event, xvs_time,
                   sigAt, settled, error>>
    /\ UNCHANGED <<envVars, histVars, lineVars>>

(***************************************************************************)
(* catch (const std::exception &e) { ...; return 1; }                      *)
(* Unwinding out of the try block destroys led_line, xvs_line and chip.    *)
(***************************************************************************)
C12_MutCatch(what) ==
    /\ pc' = "return1"
    /\ error' = what
    /\ UNCHANGED lineVars
Catch(what) ==
    /\ pc' = "return1"
    /\ error' = what
    /\ chip' = FALSE
    /\ xvs_line' = FALSE
    /\ led_line' = FALSE

(***************************************************************************)
(* Startup: lines 89-113.                                                  *)
(***************************************************************************)
\* set_realtime_priority(): sched_setscheduler succeeds or fails; either way
\* the function returns normally.
C11_MutSetRealtimePriority ==
    /\ pc = "set_realtime_priority"
    /\ \E ok \in BOOLEAN :
         IF ok THEN /\ realtime' = "fifo"
                    /\ pc' = "chip"
                    /\ UNCHANGED <<error, lineVars>>
               ELSE /\ realtime' = "default"
                    /\ Catch("set_realtime_priority")
    /\ UNCHANGED <<running, handler, led, event, xvs_time, sigAt, settled>>
    /\ UNCHANGED <<cfgVars, envVars, histVars>>
SetRealtimePriority ==
    /\ pc = "set_realtime_priority"
    /\ \E ok \in BOOLEAN : realtime' = IF ok THEN "fifo" ELSE "default"
    /\ pc' = "chip"
    /\ UNCHANGED <<running, handler, led, event, xvs_time, sigAt, settled, error>>
    /\ UNCHANGED <<cfgVars, envVars, histVars, lineVars>>

\* gpiod::chip chip(GPIO_CHIP_NAME);
C10_MutChipOpen ==
    /\ pc = "chip"
    /\ \E ok \in BOOLEAN :
         IF ok THEN /\ chip' = TRUE
                    /\ pc' = "xvs_request"
                    /\ UNCHANGED <<xvs_line, led_line, error>>
               ELSE /\ error' = "chip"
                    /\ pc' = "chip"
                    /\ UNCHANGED <<chip, xvs_line, led_line>>
    /\ UNCHANGED <<running, handler, realtime, led, event, xvs_time, sigAt, settled>>
    /\ UNCHANGED <<cfgVars, envVars, histVars>>
ChipOpen ==
    /\ pc = "chip"
    /\ \E ok \in BOOLEAN :
         IF ok THEN /\ chip' = TRUE
                    /\ pc' = "xvs_request"
                    /\ UNCHANGED <<xvs_line, led_line, error>>
               ELSE Catch("chip")
    /\ UNCHANGED <<running, handler, realtime, led, event, xvs_time, sigAt, settled>>
    /\ UNCHANGED <<cfgVars, envVars, histVars>>

\* xvs_line = chip.get_line(XVS_PIN_LINE); xvs_line.request(EVENT_RISING_EDGE)
XvsRequest ==
    /\ pc = "xvs_request"
    /\ \E ok \in BOOLEAN :
         IF ok THEN /\ xvs_line' = TRUE
                    /\ pc' = "led_request"
                    /\ UNCHANGED <<chip, led_line, error>>
               ELSE Catch("xvs_request")
    /\ UNCHANGED <<running, handler, realtime, led, event, xvs_time, sigAt, settled>>
    /\ UNCHANGED <<cfgVars, envVars, histVars>>

\* led_line = chip.get_line(LED_PIN_LINE); led_line.request(DIRECTION_OUTPUT, 0)
C19_MutLedRequest ==
    /\ pc = "led_request"
    /\ \E ok \in BOOLEAN :
         IF ok THEN /\ led_line' = TRUE
                    /\ led' = 1
                    /\ pc' = "signal"
                    /\ UNCHANGED <<chip, xvs_line, error>>
               ELSE /\ Catch("led_request")
                    /\ UNCHANGED led
    /\ UNCHANGED <<running, handler, realtime, event, xvs_time, sigAt, settled>>
    /\ UNCHANGED <<cfgVars, envVars, histVars>>
LedRequest ==
    /\ pc = "led_request"
    /\ \E ok \in BOOLEAN :
         IF ok THEN /\ led_line' = TRUE
                    /\ led' = 0
                    /\ pc' = "signal"
                    /\ UNCHANGED <<chip, xvs_line, error>>
               ELSE /\ Catch("led_request")
                    /\ UNCHANGED led
    /\ UNCHANGED <<running, handler, realtime, event, xvs_time, sigAt, settled>>
    /\ UNCHANGED <<cfgVars, envVars, histVars>>

\* std::signal(SIGINT, signal_handler); then the banner, then the loop.
RegisterHandler ==
    /\ pc = "signal"
    /\ handler' = TRUE
    /\ pc' = "while"
    /\ UNCHANGED <<running, realtime, led, event, xvs_time, sigAt, settled, error>>
    /\ UNCHANGED <<cfgVars, envVars, histVars, lineVars>>

(***************************************************************************)
(* The trigger loop: lines 124-150.                                        *)
(***************************************************************************)
\* while (running)
C5_MutWhile ==
    /\ pc = "while"
    /\ pc' = "event_wait"
    /\ UNCHANGED <<running, handler, realtime, led, event, xvs_time, sigAt,
                   settled, error>>
    /\ UNCHANGED <<cfgVars, envVars, histVars, lineVars>>
While ==
    /\ pc = "while"
    /\ IF running
         THEN /\ pc' = "event_wait"
              /\ UNCHANGED lineVars
         ELSE /\ pc' = "return0"
              /\ chip' = FALSE
              /\ xvs_line' = FALSE
              /\ led_line' = FALSE
    /\ UNCHANGED <<running, handler, realtime, led, event, xvs_time, sigAt,
                   settled, error>>
    /\ UNCHANGED <<cfgVars, envVars, histVars>>

\* xvs_line.event_wait(500ms): true as soon as the line has a queued event,
\* false when the timeout passes with none.  The 500 ms are not measured
\* against clock: the timeout can end any wait that finds no event.
C13_MutEventWait ==
    /\ pc = "event_wait"
    /\ IF queue # <<>>
         THEN /\ pc' = "event_read"
              /\ UNCHANGED lineVars
         ELSE /\ pc' = "return0"
              /\ chip' = FALSE
              /\ xvs_line' = FALSE
              /\ led_line' = FALSE
    /\ UNCHANGED <<running, handler, realtime, led, event, xvs_time, sigAt,
                   settled, error>>
    /\ UNCHANGED <<cfgVars, envVars, histVars>>
C17_MutEventWait ==
    /\ pc = "event_wait"
    /\ pc' = "event_read"
    /\ UNCHANGED <<running, handler, realtime, led, event, xvs_time, sigAt,
                   settled, error>>
    /\ UNCHANGED <<cfgVars, envVars, histVars, lineVars>>
EventWait ==
    /\ pc = "event_wait"
    /\ pc' = IF queue # <<>> THEN "event_read" ELSE "while"
    /\ UNCHANGED <<running, handler, realtime, led, event, xvs_time, sigAt,
                   settled, error>>
    /\ UNCHANGED <<cfgVars, envVars, histVars, lineVars>>

\* gpiod::line_event event = xvs_line.event_read(): takes the oldest queued
\* event off the line.
C15_MutEventRead ==
    /\ pc = "event_read"
    /\ queue # <<>>
    /\ event' = Head(queue)
    /\ event_arrived' = Head(arrived)
    /\ processed' = processed + 1
    /\ pc' = "now"
    /\ UNCHANGED <<running, handler, realtime, led, xvs_time, sigAt, settled, error>>
    /\ UNCHANGED <<cfgVars, lineVars, envVars, rises, falls, led_on, led_off>>
EventRead ==
    /\ pc = "event_read"
    /\ queue # <<>>
    /\ event' = Head(queue)
    /\ queue' = Tail(queue)
    /\ event_arrived' = Head(arrived)
    /\ arrived' = Tail(arrived)
    /\ processed' = processed + 1
    /\ pc' = "now"
    /\ UNCHANGED <<running, handler, realtime, led, xvs_time, sigAt, settled, error>>
    /\ UNCHANGED <<cfgVars, lineVars, clock, ticks, delivered, rises, falls,
                   led_on, led_off>>

\* auto xvs_time = high_resolution_clock::now();
Now ==
    /\ pc = "now"
    /\ xvs_time' = clock
    /\ pc' = "spin"
    /\ UNCHANGED <<running, handler, realtime, led, event, sigAt, settled, error>>
    /\ UNCHANGED <<cfgVars, envVars, histVars, lineVars>>

\* while (now() - xvs_time < nanoseconds(TRIGGER_WAIT_NS)) {}
\* The body is empty: an iteration that stays in the loop changes nothing.
C1_MutDeadTimeWait ==
    /\ pc = "spin"
    /\ ~(clock - xvs_time < cfg.ft)
    /\ pc' = "set_value_1"
    /\ UNCHANGED <<running, handler, realtime, led, event, xvs_time, sigAt,
                   settled, error>>
    /\ UNCHANGED <<cfgVars, envVars, histVars, lineVars>>
C7_MutDeadTimeWait ==
    /\ pc = "spin"
    /\ IF running
         THEN /\ ~(clock - xvs_time < trigger_wait_ns)
              /\ pc' = "set_value_1"
              /\ UNCHANGED lineVars
         ELSE /\ pc' = "return0"
              /\ chip' = FALSE
              /\ xvs_line' = FALSE
              /\ led_line' = FALSE
    /\ UNCHANGED <<running, handler, realtime, led, event, xvs_time, sigAt,
                   settled, error>>
    /\ UNCHANGED <<cfgVars, envVars, histVars>>
DeadTimeWait ==
    /\ pc = "spin"
    /\ ~(clock - xvs_time < trigger_wait_ns)
    /\ pc' = "set_value_1"
    /\ UNCHANGED <<running, handler, realtime, led, event, xvs_time, sigAt,
                   settled, error>>
    /\ UNCHANGED <<cfgVars, envVars, histVars, lineVars>>

\* led_line.set_value(1);
C16_MutSetHigh ==
    /\ pc = "set_value_1"
    /\ IF running
         THEN /\ led' = 1
              /\ rises' = rises + 1
              /\ led_on' = clock
              /\ pc' = "sleep_for"
         ELSE /\ pc' = "while"
              /\ UNCHANGED <<led, rises, led_on>>
    /\ UNCHANGED <<running, handler, realtime, event, xvs_time, sigAt, settled, error>>
    /\ UNCHANGED <<cfgVars, envVars, lineVars, processed, falls, led_off,
                   event_arrived>>
SetHigh ==
    /\ pc = "set_value_1"
    /\ led' = 1
    /\ rises' = rises + 1
    /\ led_on' = clock
    /\ pc' = "sleep_for"
    /\ UNCHANGED <<running, handler, realtime, event, xvs_time, sigAt, settled, error>>
    /\ UNCHANGED <<cfgVars, envVars, lineVars, processed, falls, led_off,
                   event_arrived>>

\* std::this_thread::sleep_for(nanoseconds(FLASH_DURATION_NS)): returns once
\* at least the duration has passed since the call, which follows set_value(1).
C4_MutSleepFor ==
    /\ pc = "sleep_for"
    /\ clock - led_on >= cfg.ft
    /\ pc' = "while"
    /\ UNCHANGED <<running, handler, realtime, led, event, xvs_time, sigAt,
                   settled, error>>
    /\ UNCHANGED <<cfgVars, envVars, histVars, lineVars>>
SleepFor ==
    /\ pc = "sleep_for"
    /\ clock - led_on >= cfg.ft
    /\ pc' = "set_value_0"
    /\ UNCHANGED <<running, handler, realtime, led, event, xvs_time, sigAt,
                   settled, error>>
    /\ UNCHANGED <<cfgVars, envVars, histVars, lineVars>>

\* led_line.set_value(0); and back to the loop condition.
C3_MutSetLow ==
    /\ pc = "set_value_0"
    /\ pc' = "while"
    /\ settled' = ~running
    /\ UNCHANGED <<running, handler, realtime, led, event, xvs_time, sigAt, error>>
    /\ UNCHANGED <<cfgVars, envVars, histVars, lineVars>>
SetLow ==
    /\ pc = "set_value_0"
    /\ led' = 0
    /\ falls' = falls + 1
    /\ led_off' = clock
    /\ pc' = "while"
    /\ settled' = ~running
    /\ UNCHANGED <<running, handler, realtime, event, xvs_time, sigAt, error>>
    /\ UNCHANGED <<cfgVars, envVars, lineVars, processed, rises, led_on,
                   event_arrived>>

\* A GPIO call of the loop throws std::system_error.
GpioCalls == {"event_wait", "event_read", "set_value_1", "set_value_0"}
GpioThrow ==
    /\ pc \in GpioCalls
    /\ Catch(pc)
    /\ UNCHANGED <<running, handler, realtime, led, event, xvs_time, sigAt, settled>>
    /\ UNCHANGED <<cfgVars, envVars, histVars>>

(***************************************************************************)
(* The environment.                                                        *)
(***************************************************************************)
\* The clock advances, by the flash duration or by the trigger wait.
Tick ==
    /\ pc \in Startup \cup Loop
    /\ ticks < MaxTicks
    /\ \E d \in {cfg.ft, trigger_wait_ns} : clock' = clock + d
    /\ ticks' = ticks + 1
    /\ UNCHANGED <<pc, running, handler, realtime, led, event, xvs_time, sigAt,
                   settled, error, queue, arrived, delivered>>
    /\ UNCHANGED <<cfgVars, histVars, lineVars>>

\* A rising edge on XVS while the line is requested: the kernel queues an
\* event carrying the time of the edge.
Edge ==
    /\ xvs_line
    /\ delivered < MaxEdges
    /\ queue' = Append(queue, clock)
    /\ arrived' = Append(arrived, IF pc \in InFlight THEN processed ELSE 0)
    /\ delivered' = delivered + 1
    /\ UNCHANGED <<pc, running, handler, realtime, led, event, xvs_time, sigAt,
                   settled, error, clock, ticks>>
    /\ UNCHANGED <<cfgVars, histVars, lineVars>>

\* void signal_handler(int signum): only SIGINT is registered.
C18_MutSignalHandler ==
    /\ running' = ~running
    /\ sigAt' = IF sigAt = "none" THEN pc ELSE sigAt
    /\ settled' = (settled \/ pc \notin InFlight)
signal_handler ==
    /\ running' = FALSE
    /\ sigAt' = IF sigAt = "none" THEN pc ELSE sigAt
    /\ settled' = (settled \/ pc \notin InFlight)

\* SIGINT while main() runs with the handler installed and is not blocked in
\* the poll of event_wait (at pc = "event_wait": before the poll is entered).
Sigint ==
    /\ handler
    /\ pc \in Loop
    /\ signal_handler
    /\ UNCHANGED <<pc, handler, realtime, led, event, xvs_time, error>>
    /\ UNCHANGED <<cfgVars, envVars, histVars, lineVars>>

\* SIGINT while main() is blocked in the poll of event_wait: the handler runs,
\* the poll fails with EINTR and event_wait throws std::system_error.
SigintInWait ==
    /\ handler
    /\ pc = "event_wait"
    /\ signal_handler
    /\ Catch("EINTR")
    /\ UNCHANGED <<handler, realtime, led, event, xvs_time>>
    /\ UNCHANGED <<cfgVars, envVars, histVars>>

\* SIGINT before std::signal has run: the default action ends the process.
SigintDefault ==
    /\ ~handler
    /\ pc \in Startup
    /\ pc' = "killed"
    /\ chip' = FALSE
    /\ xvs_line' = FALSE
    /\ led_line' = FALSE
    /\ UNCHANGED <<running, handler, realtime, led, event, xvs_time, sigAt,
                   settled, error>>
    /\ UNCHANGED <<cfgVars, envVars, histVars>>

Next ==
    \/ StaticAssert
    \/ SetRealtimePriority
    \/ ChipOpen
    \/ XvsRequest
    \/ LedRequest
    \/ RegisterHandler
    \/ While
    \/ EventWait
    \/ EventRead
    \/ Now
    \/ DeadTimeWait
    \/ SetHigh
    \/ SleepFor
    \/ SetLow
    \/ GpioThrow
    \/ Tick
    \/ Edge
    \/ Sigint
    \/ SigintInWait
    \/ SigintDefault

Spec == Init /\ [][Next]_vars

(***************************************************************************)
(* Properties.                                                             *)
(***************************************************************************)
triggerDelay == cfg.t1 + cfg.t2
windowDuration == cfg.texp - cfg.t2
pulseDuration == cfg.ft

\* C1: whenever the LED line is high, it was switched on no earlier than
\* triggerDelay (blankingTime + rollUpTime) after the timestamp xvs_time taken
\* for the edge of that cycle.
C1_NeverEarly ==
    led = 1 => led_on - xvs_time >= triggerDelay

\* the LED is on in a cycle whose dead-time wait overshot, after a SIGINT
C1_Witness ==
    /\ led = 1
    /\ pc = "sleep_for"
    /\ ~running
    /\ led_on - xvs_time > triggerDelay

\* C2: for every processed edge the interval in which the LED is high lies
\* inside the window of that edge: it begins no earlier than triggerDelay
\* after the edge (event) and ends no later than triggerDelay +
\* windowDuration after it.
C2_PulseInsideWindow ==
    /\ led = 1 =>
         /\ event + triggerDelay <= led_on
         /\ clock <= event + triggerDelay + windowDuration
    /\ (processed > 0 /\ falls = processed) =>
         /\ event + triggerDelay <= led_on
         /\ led_off <= event + triggerDelay + windowDuration

C4_NoOverlap ==
    [][ /\ pc \in {"spin", "set_value_1", "sleep_for", "set_value_0"} =>
             /\ xvs_time' = xvs_time
             /\ event' = event
             /\ processed' = processed
             /\ queue' = queue \/ queue' = Append(queue, clock)
        /\ processed' # processed =>
             (pc = "event_read" /\ led = 0 /\ falls = processed /\ rises = processed)
        /\ xvs_time' # xvs_time =>
             (pc = "now" /\ led = 0 /\ falls = processed - 1)
        /\ led' # led =>
             (pc \in {"set_value_1", "set_value_0"} /\ rises' = processed)
      ]_vars

\* the second edge arrived while the LED of the first cycle was on and got
\* its timestamp only after the first cycle had switched the LED off
C4_Witness ==
    /\ processed = 2
    /\ pc = "spin"
    /\ led_on <= event
    /\ event < led_off
    /\ led_off <= xvs_time

\* C5 as stated: once SIGINT has been handled and no cycle is in flight
\* (in flight: from the read of its event to its set_value(0)), no further
\* event is read and the LED is not switched on again.
C5_NoEdgeAfterCancel ==
    [][settled => (processed' = processed /\ rises' = rises)]_vars

\* C5 amended: once running is false and control is at the loop condition
\* (or main has returned), control never enters the loop body again: no
\* event is read and the LED is not switched on.
C5_NoEdgeAfterLoopCheck ==
    [][(~running /\ pc \in {"while"} \cup Terminal) =>
         /\ ~running'
         /\ pc' \in {"while"} \cup Terminal
         /\ processed' = processed
         /\ rises' = rises
         /\ led' = led
      ]_vars

\* SIGINT arrived during the wait, one edge was processed, main returned 0
\* and a delivered edge is left unread
C5_Witness ==
    /\ pc = "return0"
    /\ sigAt = "event_wait"
    /\ processed = 1
    /\ falls = 1
    /\ queue # <<>>

\* C6 (exit status): once SIGINT has been handled in the loop, main returns
\* 0 unless a GPIO call failed on its own.
C6_InterruptExitsZero ==
    (sigAt # "none" /\ pc \in Terminal /\ error \notin GpioCalls) => pc = "return0"

\* C7: main returns 0 only from the loop condition with running false, and
\* then the LED is low and every edge read has had its switch-on and its
\* switch-off.
C7_CancelOnlyAtTop ==
    [][(pc' = "return0" /\ pc # "return0") =>
         /\ pc = "while"
         /\ ~running
         /\ led = 0
         /\ led' = 0
         /\ rises' = processed'
         /\ falls' = processed'
      ]_vars

\* SIGINT arrived during the pulse sleep; the cycle was completed before
\* main returned 0
C7_Witness ==
    /\ pc = "return0"
    /\ sigAt = "sleep_for"
    /\ processed = 1
    /\ falls = 1
    /\ led = 0

\* C8: timing inputs with pulseDuration >= totalExposureTime - rollUpTime are
\* refused by the build: no priority request, no chip, no line, no loop, no
\* LED; and wherever a line is held or the loop runs, pulseDuration <
\* windowDuration.
C8_RejectedBeforeHardware ==
    /\ pulseDuration >= cfg.texp - cfg.t2 =>
         /\ pc \in {"static_assert", "rejected"}
         /\ realtime = "unset"
         /\ ~chip /\ ~xvs_line /\ ~led_line
         /\ led = 0 /\ rises = 0
    /\ (chip \/ xvs_line \/ led_line \/ pc \in Loop) =>
         pulseDuration < windowDuration

\* the 10.6 ms exposure (window 20900 ns) has been refused
C8_Witness ==
    /\ pc = "rejected"
    /\ cfg.texp = 10600000
    /\ windowDuration = 20900
    /\ pulseDuration = 50000

\* C9: timing inputs with pulseDuration < totalExposureTime - rollUpTime are
\* accepted with T3_MAGIC_WINDOW_NS = totalExposureTime - rollUpTime and
\* TRIGGER_WAIT_NS = blankingTime + rollUpTime; the shipped constants give
\* 4420900 and 10863300.
C9_DerivedTiming ==
    /\ (pc # "static_assert" /\ cfg.ft < cfg.texp - cfg.t2) =>
         /\ pc # "rejected"
         /\ t3_magic_window_ns = cfg.texp - cfg.t2
         /\ trigger_wait_ns = cfg.t1 + cfg.t2
    /\ (pc # "static_assert" /\ cfg = [t1 |-> 284200, t2 |-> 10579100,
                                         texp |-> 15000000, ft |-> 50000]) =>
         /\ t3_magic_window_ns = 4420900
         /\ trigger_wait_ns = 10863300

\* the shipped constants are built and the loop waits out 10863300 ns
C9_Witness ==
    /\ cfg = Shipped
    /\ pc = "set_value_1"
    /\ trigger_wait_ns = 10863300
    /\ clock - xvs_time = 10863300

\* C10: once the chip open or a line request has failed, main has returned 1:
\* the handler was never registered (the loop was never entered), no event
\* was read, the LED was never switched on, and the failed call is not made
\* again.
C10_AcquisitionFailureFatal ==
    error \in {"chip", "xvs_request", "led_request"} =>
        /\ pc = "return1"
        /\ ~handler
        /\ sigAt = "none"
        /\ processed = 0
        /\ rises = 0
        /\ led = 0

\* the LED line request failed after the chip and the XVS line were acquired
C10_Witness ==
    /\ error = "led_request"
    /\ pc = "return1"

\* C11: the real-time priority request never ends the run: whether it
\* succeeds or fails, its step leads to the chip open with no error recorded
\* and nothing but the scheduling class changed, and a run that asked in vain
\* ends only for a reason any run can end for.
C11_PriorityFailureNonFatal ==
    [][ /\ (pc = "set_realtime_priority" /\ pc' \notin {pc, "killed"}) =>
             /\ pc' = "chip"
             /\ realtime' \in {"fifo", "default"}
             /\ error' = "none"
             /\ UNCHANGED <<running, handler, led, event, xvs_time, sigAt, settled>>
             /\ UNCHANGED <<cfgVars, envVars, histVars, lineVars>>
        /\ realtime' # realtime => pc = "set_realtime_priority"
        /\ error' \in {"none", "chip", "xvs_request", "led_request", "EINTR"}
                      \cup GpioCalls
      ]_vars

\* the priority request failed; the loop ran, fired a pulse and main
\* returned 0
C11_Witness ==
    /\ realtime = "default"
    /\ pc = "return0"
    /\ rises = 1
    /\ falls = 1

\* C12: in every terminal state (return 0, return 1 from startup or from the
\* loop, killed by the default SIGINT action, or never built) the chip and
\* both lines are released.
C12_LinesReleasedOnExit ==
    pc \in Terminal => (~chip /\ ~xvs_line /\ ~led_line)

\* a GPIO call threw inside the loop, after both lines had been acquired
C12_Witness ==
    /\ pc = "return1"
    /\ error = "set_value_1"
    /\ processed = 1
    /\ ~xvs_line
    /\ ~led_line

\* C13 as stated: once the handler is registered and the loop runs, main
\* ends only after cancellation was requested.
C13_ExitOnlyOnCancel ==
    (handler /\ pc \in Terminal) => ~running

\* C13 amended: once the loop runs, main returns 0 only after cancellation
\* was requested, and ends otherwise only by returning 1 from the catch
\* clause with the exception of a GPIO call of the loop (or of the
\* interrupted poll, which follows a cancellation).
C13_ExitOnCancelOrThrow ==
    (handler /\ pc \in Terminal) =>
        \/ pc = "return0" /\ ~running /\ error = "none"
        \/ pc = "return1" /\ error \in GpioCalls
        \/ pc = "return1" /\ error = "EINTR" /\ ~running

\* main returned 0 after a SIGINT that arrived while it waited for an edge
C13_Witness ==
    /\ pc = "return0"
    /\ sigAt = "event_wait"
    /\ ~running
    /\ processed = 0

\* C15: an event read is taken off the queue: every delivered edge is either
\* still queued or was read exactly once, so neither the edges processed nor
\* the pulses fired exceed the edges delivered.
C15_EdgeConsumed ==
    /\ processed + Len(queue) = delivered
    /\ processed <= delivered
    /\ rises <= delivered

\* every delivered edge was read and fired its pulse, and the next wait
\* finds the queue empty
C15_Witness ==
    /\ delivered = 2
    /\ processed = 2
    /\ rises = 2
    /\ falls = 2
    /\ queue = <<>>
    /\ pc = "event_wait"

\* C17: the step in which event_wait times out (it leads from the wait back
\* to the loop condition) finds no queued event and changes nothing but the
\* position; and a wait that finds no event and returns goes nowhere else.
C17_TimeoutFrame ==
    [][ /\ (pc = "event_wait" /\ pc' = "while") =>
             /\ queue = <<>>
             /\ UNCHANGED <<running, handler, realtime, led, event, xvs_time,
                            sigAt, settled, error>>
             /\ UNCHANGED <<cfgVars, envVars, histVars, lineVars>>
        /\ (pc = "event_wait" /\ queue = <<>> /\ pc' \notin {pc, "return1"}) =>
             pc' = "while"
      ]_vars

\* the wait during which SIGINT arrived has timed out: control is back at
\* the loop condition and nothing was read
C17_Witness ==
    /\ pc = "while"
    /\ sigAt = "event_wait"
    /\ processed = 0
    /\ delivered = 0
    /\ led = 0
    /\ error = "none"

\* C18: running is true until the signal handler first runs, changes only in a step of the signal handler
\* (the step that records where SIGINT arrived), only from true to false,
\* and once false stays false.
C18_RunFlagMonotone ==
    [][ /\ sigAt = "none" => running
        /\ running' # running =>
             (running /\ ~running' /\ handler /\ pc \in Loop
              /\ sigAt = "none" /\ sigAt' = pc)
        /\ ~running => ~running'
      ]_vars

\* SIGINT came during the dead-time wait, and the flag is still false when
\* the cycle reaches set_value(0)
C18_Witness ==
    /\ ~running
    /\ sigAt = "spin"
    /\ pc = "set_value_0"

\* C19 as stated: the LED line is high only between set_value(1) and
\* set_value(0) of one cycle.
C19_HighOnlyWhileActuating ==
    led = 1 => pc \in {"sleep_for", "set_value_0"}

\* C19 amended: the LED line is high only between set_value(1) and
\* set_value(0) of one cycle, or after main returned 1 because that
\* set_value(0) threw.
C19_HighOnlyWhileActuatingOrFailed ==
    led = 1 =>
        \/ pc \in {"sleep_for", "set_value_0"}
        \/ pc = "return1" /\ error = "set_value_0"

\* the LED is low again in the dead-time wait of the second cycle
C19_Witness ==
    /\ pc = "spin"
    /\ processed = 2
    /\ rises = 1
    /\ falls = 1
    /\ led = 0

\* C14: of the edges that arrive during one cycle (after the read of its
\* event and before its set_value(0)) at most one is ever read: no event is
\* read that arrived during the same cycle as the event read before it.
C14_ExtraEdgesSkipped ==
    [][processed' # processed =>
         ~(Head(arrived) # 0 /\ Head(arrived) = event_arrived)]_vars

\* C16 as stated: once an event is read, the cycle is left only by
\* set_value(0) returning control to the loop condition.
C16_CycleNeverAbandoned ==
    [][(pc \in InFlight /\ pc' # pc) => pc' \in InFlight \cup {"while"}]_vars

\* C16 amended: once an event is read, every step of main leads on through
\* timestamp, dead-time wait, set_value(1), sleep and set_value(0) to the
\* loop condition, whatever running is, or to return 1 when a set_value
\* throws; and no position of the cycle can block: each step is enabled as
\* soon as the clock has advanced far enough.
C16_CycleCompletesUnlessThrow ==
    [][ /\ pc = "now" => ENABLED Now
        /\ (pc = "spin" /\ clock - xvs_time >= triggerDelay) => ENABLED DeadTimeWait
        /\ pc = "set_value_1" => ENABLED SetHigh
        /\ (pc = "sleep_for" /\ clock - led_on >= pulseDuration) => ENABLED SleepFor
        /\ pc = "set_value_0" => ENABLED SetLow
        /\ (pc = "now" /\ pc' # pc) => pc' = "spin"
        /\ (pc = "spin" /\ pc' # pc) => pc' = "set_value_1"
        /\ (pc = "set_value_1" /\ pc' # pc) =>
             \/ pc' = "sleep_for" /\ led' = 1
             \/ pc' = "return1" /\ error' = "set_value_1"
        /\ (pc = "sleep_for" /\ pc' # pc) => pc' = "set_value_0"
        /\ (pc = "set_value_0" /\ pc' # pc) =>
             \/ pc' = "while" /\ led' = 0
             \/ pc' = "return1" /\ error' = "set_value_0"
      ]_vars

\* SIGINT arrived during the dead-time wait; the pulse was fired and ended
\* and control is back at the loop condition
C16_Witness ==
    /\ pc = "while"
    /\ sigAt = "spin"
    /\ ~running
    /\ rises = 1
    /\ falls = 1
    /\ led = 0

====
